---- MODULE Spec2Model ----
(***************************************************************************)
(* Food-waste report writer (src/wastage.py).                              *)
(*                                                                         *)
(* Every browser session runs main() as a script; the "Submit Report"      *)
(* button calls save_to_s3, which reads the whole workbook from S3,        *)
(* appends the new rows and writes the whole workbook back.  The module    *)
(* defines save_to_s3 twice (lines 75 and 293); main() is only called on   *)
(* line 363, after both definitions ran, so the name is bound to the       *)
(* second definition (lines 293-360) and that is the one modelled.         *)
(*                                                                         *)
(* A text typed into a widget is a sequence of characters, the S3 object   *)
(* is either missing or one worksheet (header + rows of cells), and the    *)
(* steps of a call that touch S3 (get_object, put_object) are separate     *)
(* actions, so the calls of different sessions interleave there.           *)
(***************************************************************************)
EXTENDS Integers, Sequences, FiniteSets, TLC

\* ---------------------------------------------------------------- bounds
MaxCalls == 2           \* save_to_s3 calls started in one behaviour
MaxItems == 2           \* largest product count the user confirms
MaxRows == 2            \* rows of the report written by the session that varies its batches
MaxRecords == 2         \* rows of a frame given to create_analytics_sheets
MaxAnalyticsCalls == 2  \* calls of create_analytics_sheets on one frame
MaxClock == 1           \* seconds the wall clock advances

\* The browser sessions that run main().
Sessions == {1, 2}

\* ------------------------------------------------------- program constants
min_value == 1          \* number_input lower limit
max_value == 50         \* number_input upper limit

COLUMN_ORDER ==
    <<"Entry ID", "Timestamp", "Submitter_Name", "Department", "Outlet",
      "Product Name", "Amount Wasted">>

dept_options == <<"Retail", "Medallion Club", "Functions", "Corporate Suites">>

outlet_options(department) ==
    CASE department = "Retail" -> <<"RET F 104", "RET B 105", "RET B 205">>
      [] department = "Medallion Club" -> <<"Gallery", "Stokegrill", "Terrace">>
      [] department = "Functions" -> <<"Victory Room", "Parker">>
      [] department = "Corporate Suites" -> <<"suites 1", "suites 2", "suites 3">>
      [] OTHER -> <<>>

\* ----------------------------------------------------------------- helpers
Range(seq) == {seq[i] : i \in DOMAIN seq}

Max(S) == CHOOSE m \in S : \A x \in S : x <= m

\* str.strip(): leading and trailing blanks removed.
RECURSIVE lstrip(_)
lstrip(text) ==
    IF text # <<>> /\ Head(text) = " " THEN lstrip(Tail(text)) ELSE text

RECURSIVE rstrip(_)
rstrip(text) ==
    IF text # <<>> /\ text[Len(text)] = " "
    THEN rstrip(SubSeq(text, 1, Len(text) - 1))
    ELSE text

strip(text) == rstrip(lstrip(text))

\* Python truth value of a str.
truthy(text) == Len(text) > 0

\* datetime.now().strftime("%Y-%m-%d %H:%M:%S") at second `t` of the run.
strftime(t) == "2024-01-01 00:00:0" \o ToString(t)

\* ------------------------------------------------ inputs (what users type)
\* One product row as typed, (Product Name #i, Amount Wasted #i): left
\* empty, a blank for a name, and a name, the last two with an amount.
RowInputs == {<< <<>>, <<>> >>, << <<" ">>, <<"3">> >>, << <<"B">>, <<"3">> >>}

\* Everything the form is given: the name, the department, the radio
\* button and the product rows.
FormInputs ==
    [names |-> {<<>>, <<"A">>},
     depts |-> {"Retail", "Functions"},
     wastage |-> {"No", "Yes"},
     rows |-> RowInputs]

\* Forms that are filled in completely, which reach save_to_s3.
CompleteForms ==
    [names |-> {<<"A">>},
     depts |-> {"Retail"},
     wastage |-> {"Yes"},
     rows |-> {<< <<"B">>, <<"3">> >>}]

\* Any form whose product rows are either left empty or filled in.
PlainForms ==
    [names |-> {<<>>, <<"A">>},
     depts |-> {"Retail"},
     wastage |-> {"No", "Yes"},
     rows |-> {<< <<>>, <<>> >>, << <<"B">>, <<"3">> >>}]

\* Complete forms whose product rows differ from each other.
BatchForms ==
    [names |-> {<<"A">>},
     depts |-> {"Retail"},
     wastage |-> {"Yes"},
     rows |-> {<< <<"B">>, <<"3">> >>, << <<"C">>, <<"2">> >>}]

\* The outlet selectbox offers the outlets of the department.
OutletInputs(department) == {outlet_options(department)[1]}

\* The text inputs of the n product rows the page shows, each typed from
\* `rows`.
TextInputs(n, rows) == [1..n -> rows]

\* ------------------------------------------------------------ the workbook
\* A cell of the worksheet that xlsxwriter leaves empty, and what pandas
\* reads from it.
BLANK == <<"<blank>">>
NaN == <<"<NaN>">>

\* The columns that hold what the user typed; the others hold a number
\* (Entry ID) or a text the program chose, which is never empty.
TypedColumns == {"Submitter_Name", "Product Name", "Amount Wasted"}

EmptyFrame == [columns |-> COLUMN_ORDER, rows |-> <<>>]

\* df.to_excel(writer, index=False): a header row and one row of cells per
\* record; an empty string and a missing value both give an empty cell.
to_excel_cell(c, v) ==
    IF c \in TypedColumns /\ (v = <<>> \/ v = NaN) THEN BLANK ELSE v

\* The worksheet is written without a sheet_name, so it takes the default.
to_excel(df) ==
    [sheet_name |-> "Sheet1",
     columns |-> df.columns,
     rows |-> [i \in DOMAIN df.rows |->
                 [c \in DOMAIN df.rows[i] |-> to_excel_cell(c, df.rows[i][c])]]]

\* Lines 336-339: the worksheets of the workbook the ExcelWriter block
\* produces, which is the one worksheet of df.to_excel.
workbook_sheets(book) == {book.sheet_name}

\* pd.read_excel(body): the first worksheet; an empty cell reads as NaN.
read_excel_cell(c, v) == IF c \in TypedColumns /\ v = BLANK THEN NaN ELSE v

read_excel(sheet) ==
    [columns |-> sheet.columns,
     rows |-> [i \in DOMAIN sheet.rows |->
                 [c \in DOMAIN sheet.rows[i] |-> read_excel_cell(c, sheet.rows[i][c])]]]

\* As concat, but the new rows come first.
concat_new_first(df, new_df) ==
    [columns |-> df.columns, rows |-> new_df.rows \o df.rows]

\* pd.concat([df, new_df], ignore_index=True) of frames with equal columns.
concat(df, new_df) == [columns |-> df.columns, rows |-> df.rows \o new_df.rows]

\* ------------------------------------------------------------------- state
VARIABLES
    s3_exists,      \* the object S3_FILE exists in the bucket
    s3_sheet,       \* its worksheet: [columns, rows]
    s3_origin,      \* history: the call that created each stored row
    now,            \* wall clock, in seconds
    log,            \* history: one entry per save_to_s3 call started
    session_state,  \* st.session_state of each session
    pc,             \* where each session's script is
    frame,          \* locals of each session's running save_to_s3 call
    shown,          \* what the last script run of each session displayed
    main_df,        \* the frame create_analytics_sheets is called with
    analytics       \* what each call of create_analytics_sheets returned

vars == <<s3_exists, s3_sheet, s3_origin, now, log, session_state, pc, frame,
          shown, main_df, analytics>>

\* The locals of save_to_s3; `merged` is df after line 333, `df` before it.
NoFrame ==
    [call |-> 0, submitter_name |-> <<>>, department |-> "", outlet |-> "",
     wastage_list |-> <<>>, timestamp |-> "", df |-> EmptyFrame,
     df_origin |-> <<>>, entry_id |-> 0, new_rows |-> <<>>,
     merged |-> EmptyFrame]

\* What the history keeps of a call: who called, with how many items, how
\* the fetch went, the origin of the rows it fetched, the Entry ID it
\* computed, its get_object and put_object requests, and how it ended.
NewEntry(s, items) ==
    [session |-> s, items |-> items, fetched |-> "none", base |-> <<>>,
     entry_id |-> 0, gets |-> 0, puts |-> 0, result |-> "running"]

FreshSession == [num_products |-> 1, confirmed_num |-> 1, wastage_items |-> <<>>]

Nothing == [msg |-> "none", n |-> 0]

Init ==
    /\ s3_exists = FALSE
    /\ s3_sheet = EmptyFrame
    /\ s3_origin = <<>>
    /\ now = 0
    /\ log = <<>>
    /\ session_state = [s \in Sessions |-> FreshSession]
    /\ pc = [s \in Sessions |-> "idle"]
    /\ frame = [s \in Sessions |-> NoFrame]
    /\ shown = [s \in Sessions |-> Nothing]
    /\ main_df = EmptyFrame
    /\ analytics = <<>>

\* ------------------------------------------------------------------ main()
\* Lines 260-266: one item per product row whose two fields are both
\* filled in, each field stripped after the test.
RECURSIVE collect_items(_)
collect_items(texts) ==
    IF texts = <<>> THEN <<>>
    ELSE LET product_name == texts[Len(texts)][1]
             amount == texts[Len(texts)][2]
             rest == collect_items(SubSeq(texts, 1, Len(texts) - 1))
         IN  IF truthy(product_name) /\ truthy(amount)
             THEN Append(rest, <<strip(product_name), strip(amount)>>)
             ELSE rest

\* Lines 233-266 of a script run: the session state after the widgets were
\* read.  With "No" the product rows are not shown and the state is reset.
read_widgets(ss, has_wastage, texts) ==
    IF has_wastage = "No"
    THEN FreshSession
    ELSE [ss EXCEPT !.wastage_items = collect_items(texts)]

\* The product rows a run shows: confirmed_num of them, none with "No".
ShownTexts(ss, has_wastage, rows) ==
    IF has_wastage = "No" THEN {<<>>} ELSE TextInputs(ss.confirmed_num, rows)

\* A widget changed and the script ran without a button pressed.
Rerun(s, form) ==
    /\ pc[s] = "idle"
    /\ \E has_wastage \in form.wastage :
         \E texts \in ShownTexts(session_state[s], has_wastage, form.rows) :
            session_state' = [session_state EXCEPT
                                ![s] = read_widgets(@, has_wastage, texts)]
    /\ shown' = [shown EXCEPT ![s] = Nothing]
    /\ UNCHANGED <<s3_exists, s3_sheet, s3_origin, now, log, pc, frame,
                   main_df, analytics>>

\* Lines 243-257: "Confirm Count" stores the new count and reruns the
\* script, which then shows that many product rows.
ConfirmCount(s, form) ==
    /\ pc[s] = "idle"
    /\ \E new_num \in min_value..max_value :
         /\ new_num <= MaxItems
         /\ LET counted == [session_state[s] EXCEPT !.confirmed_num = new_num,
                                                    !.num_products = new_num]
            IN  \E texts \in TextInputs(new_num, form.rows) :
                   session_state' = [session_state EXCEPT
                                       ![s] = read_widgets(counted, "Yes", texts)]
    /\ shown' = [shown EXCEPT ![s] = Nothing]
    /\ UNCHANGED <<s3_exists, s3_sheet, s3_origin, now, log, pc, frame,
                   main_df, analytics>>

\* As submit_branch, without the test of lines 274-276.
submit_branch_any_items(submitter_name, has_wastage, ss) ==
    IF ~truthy(submitter_name) THEN "name_error"
    ELSE IF has_wastage = "Yes" THEN "save"
    ELSE "no_wastage"

\* Lines 269-291, "Submit Report" pressed: what main() does with the
\* session state `ss` the run has built.
\*   "name_error"   lines 270-272     "items_error"  lines 274-276
\*   "no_wastage"   lines 287-288     "save"         lines 279-286
submit_branch(submitter_name, has_wastage, ss) ==
    IF ~truthy(submitter_name) THEN "name_error"
    ELSE IF has_wastage = "Yes" /\ ss.wastage_items = <<>> THEN "items_error"
    ELSE IF has_wastage = "Yes" THEN "save"
    ELSE "no_wastage"

\* Lines 293-305: the call starts and takes the time once.
enter_save_to_s3(call, submitter_name, department, outlet, wastage_list) ==
    [NoFrame EXCEPT !.call = call,
                    !.submitter_name = submitter_name,
                    !.department = department,
                    !.outlet = outlet,
                    !.wastage_list = wastage_list,
                    !.timestamp = strftime(now)]

SubmitReport(s, form) ==
    /\ pc[s] = "idle"
    /\ \E submitter_name \in form.names, department \in form.depts,
          has_wastage \in form.wastage :
         \E outlet \in OutletInputs(department),
            texts \in ShownTexts(session_state[s], has_wastage, form.rows) :
            LET ss == read_widgets(session_state[s], has_wastage, texts)
                branch == submit_branch(submitter_name, has_wastage, ss)
            IN  /\ session_state' = [session_state EXCEPT ![s] = ss]
                /\ IF branch = "save"
                   THEN /\ Len(log) < MaxCalls
                        /\ log' = Append(log, NewEntry(s, Len(ss.wastage_items)))
                        /\ frame' = [frame EXCEPT ![s] =
                                       enter_save_to_s3(Len(log) + 1, submitter_name,
                                           department, outlet, ss.wastage_items)]
                        /\ pc' = [pc EXCEPT ![s] = "get_object"]
                        /\ shown' = [shown EXCEPT ![s] = Nothing]
                   ELSE /\ shown' = [shown EXCEPT ![s] = [msg |-> branch, n |-> 0]]
                        /\ UNCHANGED <<log, pc, frame>>
    /\ UNCHANGED <<s3_exists, s3_sheet, s3_origin, now, main_df, analytics>>

\* ------------------------------------------------------------- save_to_s3
\* As next_entry_id, but counting the rows instead of taking the largest
\* Entry ID.
next_entry_id_by_count(df) ==
    IF "Entry ID" \in Range(df.columns) /\ df.rows # <<>>
    THEN Len(df.rows) + 1
    ELSE 1

\* Line 319: the next Entry ID.
next_entry_id(df) ==
    IF "Entry ID" \in Range(df.columns) /\ df.rows # <<>>
    THEN Max({df.rows[i]["Entry ID"] : i \in DOMAIN df.rows}) + 1
    ELSE 1

\* As make_new_rows, but the first item of the batch is left out.
make_new_rows_but_first(entry_id, timestamp, submitter_name, department, outlet, wastage_list) ==
    [i \in 1..(Len(wastage_list) - 1) |->
        [c \in Range(COLUMN_ORDER) |->
            CASE c = "Entry ID" -> entry_id
              [] c = "Timestamp" -> timestamp
              [] c = "Submitter_Name" -> submitter_name
              [] c = "Department" -> department
              [] c = "Outlet" -> outlet
              [] c = "Product Name" -> wastage_list[i + 1][1]
              [] c = "Amount Wasted" -> wastage_list[i + 1][2]]]

\* As make_new_rows, but the rows take the items in reverse order.
make_new_rows_reversed(entry_id, timestamp, submitter_name, department, outlet, wastage_list) ==
    [i \in DOMAIN wastage_list |->
        [c \in Range(COLUMN_ORDER) |->
            CASE c = "Entry ID" -> entry_id
              [] c = "Timestamp" -> timestamp
              [] c = "Submitter_Name" -> submitter_name
              [] c = "Department" -> department
              [] c = "Outlet" -> outlet
              [] c = "Product Name" -> wastage_list[Len(wastage_list) + 1 - i][1]
              [] c = "Amount Wasted" -> wastage_list[Len(wastage_list) + 1 - i][2]]]

\* Lines 322-330: one dict per (product, amount) of the batch; every dict
\* takes the same entry_id and the same timestamp.
make_new_rows(entry_id, timestamp, submitter_name, department, outlet, wastage_list) ==
    [i \in DOMAIN wastage_list |->
        [c \in Range(COLUMN_ORDER) |->
            CASE c = "Entry ID" -> entry_id
              [] c = "Timestamp" -> timestamp
              [] c = "Submitter_Name" -> submitter_name
              [] c = "Department" -> department
              [] c = "Outlet" -> outlet
              [] c = "Product Name" -> wastage_list[i][1]
              [] c = "Amount Wasted" -> wastage_list[i][2]]]

\* Line 332: pd.DataFrame(new_rows, columns=COLUMN_ORDER).
DataFrame(new_rows, columns) ==
    [columns |-> columns,
     rows |-> [i \in DOMAIN new_rows |->
                 [c \in Range(columns) |-> new_rows[i][c]]]]

\* Lines 318-333 on the frame `f` whose df was just fetched.
merge(f) ==
    LET entry_id == next_entry_id(f.df)
        new_rows == make_new_rows(entry_id, f.timestamp, f.submitter_name,
                                  f.department, f.outlet, f.wastage_list)
    IN  [f EXCEPT !.entry_id = entry_id,
                  !.new_rows = new_rows,
                  !.merged = concat(f.df, DataFrame(new_rows, COLUMN_ORDER))]

\* Lines 309-333 with the outcome of the download given: the frame after
\* them, the history entry of the call, and on to the upload.
Fetched(s, outcome, df, df_origin) ==
    LET f == merge([frame[s] EXCEPT !.df = df, !.df_origin = df_origin])
    IN  /\ frame' = [frame EXCEPT ![s] = f]
        /\ log' = [log EXCEPT ![f.call].fetched = outcome,
                              ![f.call].base = df_origin,
                              ![f.call].entry_id = f.entry_id,
                              ![f.call].gets = @ + 1]
        /\ pc' = [pc EXCEPT ![s] = "put_object"]
        /\ UNCHANGED <<s3_exists, s3_sheet, s3_origin, now, session_state, shown,
                       main_df, analytics>>

\* Lines 310-311: the object is there and is read.
GetObjectFound(s) ==
    /\ pc[s] = "get_object"
    /\ s3_exists
    /\ Fetched(s, "found", read_excel(s3_sheet), s3_origin)

\* Lines 312-313: NoSuchKey, the report does not exist yet.
GetObjectNoSuchKey(s) ==
    /\ pc[s] = "get_object"
    /\ ~s3_exists
    /\ Fetched(s, "NoSuchKey", EmptyFrame, <<>>)

\* Lines 314-316: any other exception of get_object or read_excel
\* (network, credentials, a damaged file) is logged and the call goes on
\* with an empty frame.
GetObjectError(s) ==
    /\ pc[s] = "get_object"
    /\ Fetched(s, "error", EmptyFrame, <<>>)

\* Lines 342-347 were reached: put_object was called once more, and lines
\* 356-360 and the return to main() follow: the finally block resets the
\* session, the locals are gone, the script run is over.
PutAndReturn(s, result, message) ==
    /\ log' = [log EXCEPT ![frame[s].call].puts = @ + 1,
                          ![frame[s].call].result = result]
    /\ shown' = [shown EXCEPT ![s] = message]
    /\ session_state' = [session_state EXCEPT ![s] = FreshSession]
    /\ frame' = [frame EXCEPT ![s] = NoFrame]
    /\ pc' = [pc EXCEPT ![s] = "idle"]

\* As PutObjectOk, but the new rows are added to the object as it is now
\* instead of the object being replaced by the workbook of this call.
PutObjectAppends(s) ==
    /\ pc[s] = "put_object"
    /\ s3_exists' = TRUE
    /\ s3_sheet' = concat(s3_sheet,
                          to_excel(DataFrame(frame[s].new_rows, COLUMN_ORDER)))
    /\ s3_origin' = s3_origin \o
                      [i \in DOMAIN frame[s].new_rows |-> frame[s].call]
    /\ PutAndReturn(s, "saved", [msg |-> "saved", n |-> Len(frame[s].new_rows)])
    /\ UNCHANGED <<now, main_df, analytics>>

\* Lines 335-350: the workbook is written and uploaded, it replaces the
\* object, and the success message is shown.
PutObjectOk(s) ==
    /\ pc[s] = "put_object"
    /\ s3_exists' = TRUE
    /\ s3_sheet' = to_excel(frame[s].merged)
    /\ s3_origin' = frame[s].df_origin \o
                      [i \in DOMAIN frame[s].new_rows |-> frame[s].call]
    /\ PutAndReturn(s, "saved", [msg |-> "saved", n |-> Len(frame[s].new_rows)])
    /\ UNCHANGED <<now, main_df, analytics>>

\* As PutObjectFails, but the exception is swallowed and the success
\* message is shown.
PutObjectFailsSilently(s) ==
    /\ pc[s] = "put_object"
    /\ PutAndReturn(s, "failed", [msg |-> "saved", n |-> Len(frame[s].new_rows)])
    /\ UNCHANGED <<s3_exists, s3_sheet, s3_origin, now, main_df, analytics>>

\* As PutObjectFails, but the upload is tried again.
PutObjectRetries(s) ==
    /\ pc[s] = "put_object"
    /\ log' = [log EXCEPT ![frame[s].call].puts = @ + 1]
    /\ UNCHANGED <<s3_exists, s3_sheet, s3_origin, now, session_state, pc,
                   frame, shown, main_df, analytics>>

\* Lines 342-347 raising, 352-354 and 289-291: put_object fails, the
\* object stays as it was, the exception is logged and raised again, and
\* main() shows the error.
PutObjectFails(s) ==
    /\ pc[s] = "put_object"
    /\ PutAndReturn(s, "failed", [msg |-> "save_failed", n |-> 0])
    /\ UNCHANGED <<s3_exists, s3_sheet, s3_origin, now, main_df, analytics>>

\* A second passes.
Tick ==
    /\ now < MaxClock
    /\ now' = now + 1
    /\ UNCHANGED <<s3_exists, s3_sheet, s3_origin, log, session_state, pc,
                   frame, shown, main_df, analytics>>

\* ------------------------------------------------ create_analytics_sheets
\* Lines 77-86: the columns of the frame that the save_to_s3 of line 75
\* builds and passes to create_analytics_sheets (line 121).
COLUMN_ORDER_NOTES ==
    <<"Entry ID", "Timestamp", "Submitter_Name", "Department", "Outlet",
      "Product Name", "Amount Wasted", "Notes">>

\* The days on which records were taken, in calendar order.
Dates == <<"2024-01-01", "2024-01-02">>

\* The records of such a frame: the cells are what lines 106-115 put
\* there, the amount being the text the user typed.
AnalyticsRows ==
    {[c \in Range(COLUMN_ORDER_NOTES) |->
         CASE c = "Entry ID" -> 1
           [] c = "Timestamp" -> d \o " 00:00:00"
           [] c = "Submitter_Name" -> <<"A">>
           [] c = "Department" -> department
           [] c = "Outlet" -> outlet_options(department)[1]
           [] c = "Product Name" -> product
           [] c = "Amount Wasted" -> amount
           [] c = "Notes" -> <<>>] :
       d \in Range(Dates), department \in {"Retail", "Functions"},
       product \in {<<"B">>, <<"C">>}, amount \in {<<"3">>, <<"2">>}}

AnalyticsFrames ==
    {[columns |-> COLUMN_ORDER_NOTES, rows |-> rows] :
       rows \in UNION {[1..n -> AnalyticsRows] : n \in 0..MaxRecords}}

\* The value of a digit character.
digit(ch) ==
    CASE ch = "0" -> 0 [] ch = "1" -> 1 [] ch = "2" -> 2 [] ch = "3" -> 3
      [] ch = "4" -> 4 [] ch = "5" -> 5 [] ch = "6" -> 6 [] ch = "7" -> 7
      [] ch = "8" -> 8 [] ch = "9" -> 9

\* Python's order of str restricted to texts of digits of at most `width`
\* characters, as a number: a < b exactly when lex_rank(a) < lex_rank(b).
RECURSIVE lex_rank(_, _)
lex_rank(text, width) ==
    IF width = 0 THEN 0
    ELSE IF text = <<>> THEN 0
    ELSE (digit(Head(text)) + 1) * 11 ^ (width - 1)
            + lex_rank(Tail(text), width - 1)

\* The values a group key takes, in the ascending order of Python's str
\* (of dates for Date), which is the order groupby puts its groups in.
key_order(by) ==
    CASE by = "Outlet" ->
            <<"Gallery", "Parker", "RET B 105", "RET B 205", "RET F 104",
              "Stokegrill", "Terrace", "Victory Room", "suites 1", "suites 2",
              "suites 3">>
      [] by = "Department" ->
            <<"Corporate Suites", "Functions", "Medallion Club", "Retail">>
      [] by = "Product Name" -> << <<"B">>, <<"C">> >>
      [] by = "Date" -> Dates

key_rank(by, k) == CHOOSE i \in DOMAIN key_order(by) : key_order(by)[i] = k

\* The elements of S in ascending order of rank.
RECURSIVE SortByRank(_, _)
SortByRank(S, rank) ==
    IF S = {} THEN <<>>
    ELSE LET m == CHOOSE x \in S : \A y \in S : rank[x] <= rank[y]
         IN  <<m>> \o SortByRank(S \ {m}, rank)

\* df.groupby(by): the keys, and the rows of one group in frame order.
group_keys(df, by) == {df.rows[i][by] : i \in DOMAIN df.rows}

group_rows(df, by, k) == SelectSeq(df.rows, LAMBDA r : r[by] = k)

\* 'count' of a group's Amount Wasted: the cells that hold a value.
count(rows) ==
    Cardinality({i \in DOMAIN rows : rows[i]["Amount Wasted"] # NaN})

\* 'sum' of a group's Amount Wasted.  The column holds str objects, and
\* adding str objects joins them.
RECURSIVE sum(_)
sum(rows) ==
    IF rows = <<>> THEN <<>>
    ELSE Head(rows)["Amount Wasted"] \o sum(Tail(rows))

\* Lines 45-48, 53-56 and 61-64: groupby(by)['Amount Wasted'], agg count
\* and sum, renamed, and sorted by Total Wastage in descending order, rows
\* of equal Total Wastage staying in key order.
group_summary(df, by) ==
    LET keys == group_keys(df, by)
        total == [k \in keys |-> sum(group_rows(df, by, k))]
        rank == [k \in keys |->
                   (0 - lex_rank(total[k], Len(df.rows)))
                       * (Len(key_order(by)) + 1) + key_rank(by, k)]
        sorted == SortByRank(keys, rank)
    IN  [index |-> by,
         rows |-> [i \in DOMAIN sorted |->
                     (by :> sorted[i])
                     @@ ("Incidents" :> count(group_rows(df, by, sorted[i])))
                     @@ ("Total Wastage" :> total[sorted[i]])]]

\* pd.to_datetime(timestamp).date(): the day of a timestamp.
to_date(timestamp) ==
    CHOOSE d \in Range(Dates) :
        \E t \in 0..9 : d \o " 00:00:0" \o ToString(t) = timestamp

\* Line 69, df['Date'] = ...: the frame itself gets the column, or has it
\* overwritten.
set_date_column(df) ==
    [columns |-> IF "Date" \in Range(df.columns)
                 THEN df.columns ELSE Append(df.columns, "Date"),
     rows |-> [i \in DOMAIN df.rows |->
                 ("Date" :> to_date(df.rows[i]["Timestamp"])) @@ df.rows[i]]]

\* Line 70: groupby('Date')['Amount Wasted'].sum().reset_index().
daily_trend(df) ==
    LET keys == group_keys(df, "Date")
        sorted == SortByRank(keys, [k \in keys |-> key_rank("Date", k)])
    IN  [index |-> "",
         rows |-> [i \in DOMAIN sorted |->
                     ("Date" :> sorted[i])
                     @@ ("Amount Wasted" :>
                            sum(group_rows(df, "Date", sorted[i])))]]

\* Lines 39-73: the dict returned, and the frame `df` as the call leaves it.
create_analytics_sheets(df) ==
    LET has(c) == c \in Range(df.columns)
        dated == IF has("Timestamp") /\ has("Amount Wasted")
                 THEN set_date_column(df) ELSE df
        names ==
            {n \in {"Outlet Summary", "Department Summary", "Product Summary",
                    "Daily Trend"} :
                /\ has("Amount Wasted")
                /\ CASE n = "Outlet Summary" -> has("Outlet")
                     [] n = "Department Summary" -> has("Department")
                     [] n = "Product Summary" -> has("Product Name")
                     [] n = "Daily Trend" -> has("Timestamp")}
    IN  [df |-> dated,
         analytics |->
            [n \in names |->
                CASE n = "Outlet Summary" -> group_summary(df, "Outlet")
                  [] n = "Department Summary" -> group_summary(df, "Department")
                  [] n = "Product Summary" -> group_summary(df, "Product Name")
                  [] n = "Daily Trend" -> daily_trend(dated)]]

\* Line 121: a call of create_analytics_sheets on main_df.
CreateAnalyticsSheets ==
    /\ Len(analytics) < MaxAnalyticsCalls
    /\ LET out == create_analytics_sheets(main_df)
       IN  /\ main_df' = out.df
           /\ analytics' = Append(analytics, out.analytics)
    /\ UNCHANGED <<s3_exists, s3_sheet, s3_origin, now, log, session_state,
                   pc, frame, shown>>

\* ----------------------------------------------------------- specifications
Step(s, form) ==
    \/ Rerun(s, form)
    \/ ConfirmCount(s, form)
    \/ SubmitReport(s, form)
    \/ GetObjectFound(s)
    \/ GetObjectNoSuchKey(s)
    \/ GetObjectError(s)
    \/ PutObjectOk(s)
    \/ PutObjectFails(s)

\* Every session submits complete forms within one second, their calls
\* interleaved.
Next == \E s \in Sessions : Step(s, CompleteForms)

Spec == Init /\ [][Next]_vars

\* One session given any form, while time passes: the submissions follow
\* each other.
NextSeq == Tick \/ Step(1, FormInputs)

SpecSeq == Init /\ [][NextSeq]_vars

\* One session submits batches of differing items within one second, until
\* the report holds MaxRows rows.
PutObjectOkUpTo(s, rows) == PutObjectOk(s) /\ Len(s3_origin') <= rows

NextBatch ==
    \/ Rerun(1, BatchForms)
    \/ ConfirmCount(1, BatchForms)
    \/ SubmitReport(1, BatchForms)
    \/ GetObjectFound(1)
    \/ GetObjectNoSuchKey(1)
    \/ GetObjectError(1)
    \/ PutObjectOkUpTo(1, MaxRows)
    \/ PutObjectFails(1)

SpecBatch == Init /\ [][NextBatch]_vars

\* One session given plain forms within one second.
NextForm == Step(1, PlainForms)

SpecForm == Init /\ [][NextForm]_vars

\* create_analytics_sheets called on any frame of records.
InitAnalytics ==
    /\ s3_exists = FALSE
    /\ s3_sheet = EmptyFrame
    /\ s3_origin = <<>>
    /\ now = 0
    /\ log = <<>>
    /\ session_state = [s \in Sessions |-> FreshSession]
    /\ pc = [s \in Sessions |-> "idle"]
    /\ frame = [s \in Sessions |-> NoFrame]
    /\ shown = [s \in Sessions |-> Nothing]
    /\ main_df \in AnalyticsFrames
    /\ analytics = <<>>

NextAnalytics == CreateAnalyticsSheets

SpecAnalytics == InitAnalytics /\ [][NextAnalytics]_vars

\* ------------------------------------------------------------------ claims
EntryIds(sheet) == [i \in DOMAIN sheet.rows |-> sheet.rows[i]["Entry ID"]]

IsPrefix(a, b) == Len(a) <= Len(b) /\ SubSeq(b, 1, Len(a)) = a

RECURSIVE ItemsSubmitted(_)
ItemsSubmitted(entries) ==
    IF entries = <<>> THEN 0
    ELSE entries[Len(entries)].items
         + ItemsSubmitted(SubSeq(entries, 1, Len(entries) - 1))

AllSaved == \A c \in DOMAIN log : log[c].result = "saved"

\* C1: starting from an absent report, once every submit call made so far
\* has reported success, the Entry ID column of the stored report reads
\* 1, 2, ..., b_1 + ... + b_N over the rows in order, b_i being the batch
\* sizes.
C1_MonotonicIds ==
    AllSaved =>
        EntryIds(s3_sheet) = [i \in 1..ItemsSubmitted(log) |-> i]

\* C2: when a submit reports success, the rows stored before it are a
\* prefix of the rows stored after it (one session, so the rows stored
\* when the upload is made are the rows stored before the call).
C2_AppendOnly ==
    [][\A s \in Sessions :
          (pc[s] = "put_object" /\ log'[frame[s].call].result = "saved")
              => IsPrefix(s3_sheet.rows, s3_sheet'.rows)]_vars

\* C3: a call whose download failed with an error other than NoSuchKey
\* makes no put_object request and does not end in success.
C3_FetchFailureIsFatal ==
    \A c \in DOMAIN log :
        log[c].fetched = "error" => log[c].puts = 0 /\ log[c].result # "saved"

\* C4: the k new rows of a call take the Entry IDs next_id, next_id + 1,
\* ..., next_id + k - 1 in the order of the batch.
C4_ConsecutiveIds ==
    \A s \in Sessions :
        pc[s] = "put_object" =>
            \A i \in DOMAIN frame[s].new_rows :
                frame[s].new_rows[i]["Entry ID"] = frame[s].entry_id + i - 1

\* C5: the first Entry ID a call assigns is the largest Entry ID of the
\* stored report plus one when the download found a report with rows, and
\* 1 when the report does not exist (NoSuchKey) or has no rows.
C5_FirstId ==
    [][\A s \in Sessions :
          (pc[s] = "get_object" /\ pc'[s] = "put_object"
             /\ log'[frame[s].call].fetched # "error")
              => frame'[s].new_rows[1]["Entry ID"] =
                    IF s3_exists /\ s3_sheet.rows # <<>>
                    THEN Max(Range(EntryIds(s3_sheet))) + 1
                    ELSE 1]_vars

\* C5 happens: a call found a report whose rows hold the Entry IDs 1, 1
\* and goes on with Entry ID 2.
C5_Witness ==
    \E s \in Sessions :
        /\ pc[s] = "put_object"
        /\ log[frame[s].call].fetched = "found"
        /\ EntryIds(frame[s].df) = <<1, 1>>
        /\ frame[s].new_rows[1]["Entry ID"] = 2

Saved(c) == log[c].result = "saved"

Stored(c) == c \in Range(s3_origin)

\* Two calls that raced: both downloads went through and gave the same
\* rows, and both uploads succeeded.
Raced(c, d) ==
    /\ c # d
    /\ Saved(c) /\ Saved(d)
    /\ log[c].fetched # "error" /\ log[d].fetched # "error"
    /\ log[c].base = log[d].base

\* C6: two calls that both fetched the same report and both report
\* success were given the same Entry ID, and the stored report never holds
\* the rows of both: the upload that came second replaced the rows of the
\* first.
C6_LostUpdate ==
    \A c, d \in DOMAIN log :
        Raced(c, d) =>
            /\ log[c].entry_id = log[d].entry_id
            /\ ~(Stored(c) /\ Stored(d))

\* C6 happens: two sessions raced, both were told success, and the stored
\* report holds the rows of the second upload and none of the first.
C6_Witness ==
    \E c, d \in DOMAIN log :
        /\ Raced(c, d)
        /\ log[c].session # log[d].session
        /\ shown[log[c].session].msg = "saved"
        /\ shown[log[d].session].msg = "saved"
        /\ Stored(d) /\ ~Stored(c)

RowsOf(c) == Cardinality({i \in DOMAIN s3_origin : s3_origin[i] = c})

\* C7: the stored report holds, of every submit call, either all the rows
\* of its batch or none of them (every stored row being the row of a call).
C7_AllOrNothing ==
    /\ Len(s3_origin) = Len(s3_sheet.rows)
    /\ \A c \in DOMAIN log : RowsOf(c) \in {0, log[c].items}

\* C7 happens: of two calls with two items each, the stored report holds
\* both rows of one and no row of the other.
C7_Witness ==
    \E c, d \in DOMAIN log :
        /\ log[c].items = 2 /\ log[d].items = 2
        /\ Saved(c) /\ Saved(d)
        /\ RowsOf(c) = 0 /\ RowsOf(d) = 2

StoreUnchanged ==
    /\ s3_exists' = s3_exists
    /\ s3_sheet' = s3_sheet
    /\ s3_origin' = s3_origin

\* C8: when put_object fails, the session is shown the error and not the
\* success message, the call has made one put_object request and is over,
\* and the stored report is not changed; nothing but an upload that
\* succeeds changes the stored report.
C8_PutFailure ==
    [][/\ \A s \in Sessions :
             (pc[s] = "put_object" /\ log'[frame[s].call].result = "failed")
                 => /\ shown'[s].msg = "save_failed"
                    /\ log'[frame[s].call].puts = 1
                    /\ pc'[s] = "idle"
                    /\ StoreUnchanged
       /\ ~StoreUnchanged =>
             \E s \in Sessions :
                 pc[s] = "put_object" /\ log'[frame[s].call].result = "saved"]_vars

\* C8 happens: the upload of a call failed while a report was stored.
C8_Witness ==
    \E c \in DOMAIN log :
        /\ log[c].result = "failed"
        /\ shown[log[c].session].msg = "save_failed"
        /\ s3_exists

\* A step in which "Submit Report" was pressed by session s with a name
\* and an empty batch.
EmptyBatchSubmitted(s) ==
    /\ pc[s] = "idle"
    /\ session_state'[s].wastage_items = <<>>
    /\ \/ shown'[s].msg \in {"items_error", "no_wastage"}
       \/ pc'[s] = "get_object"

C10_OneFetchOnePut ==
    /\ \A c \in DOMAIN log :
          /\ log[c].gets <= 1 /\ log[c].puts <= 1
          /\ log[c].puts = 1 => log[c].gets = 1
          /\ log[c].result # "running" => log[c].gets = 1 /\ log[c].puts = 1
    /\ \A s \in Sessions :
          /\ pc[s] = "get_object" =>
                /\ frame[s].df = EmptyFrame /\ frame[s].merged = EmptyFrame
                /\ log[frame[s].call].gets = 0 /\ log[frame[s].call].puts = 0
          /\ pc[s] = "put_object" =>
                log[frame[s].call].gets = 1 /\ log[frame[s].call].puts = 0

\* C10 happens: the second call of a session is over, after one download
\* and one upload of its own.
C10_Witness ==
    \E c, d \in DOMAIN log :
        /\ c < d
        /\ log[c].session = log[d].session
        /\ log[d].result # "running"
        /\ log[d].gets = 1 /\ log[d].puts = 1

\* The names the report's tables are to have.
PrimaryTable == "Wastage Data"

AuxiliaryTables ==
    {"Outlet Summary", "Department Summary", "Product Summary", "Daily Trend"}

\* C11: the stored workbook holds the primary table "Wastage Data" and the
\* auxiliary tables "Outlet Summary", "Department Summary", "Product
\* Summary" and "Daily Trend" next to it.
C11_ArtifactTables ==
    s3_exists =>
        /\ s3_sheet.sheet_name = PrimaryTable
        /\ AuxiliaryTables \subseteq workbook_sheets(s3_sheet)

\* The field constraints of a submission: a name, at least one item, a
\* product name in every item, an outlet of the department.
ValidSubmission(f) ==
    /\ f.submitter_name # <<>>
    /\ f.wastage_list # <<>>
    /\ \A i \in DOMAIN f.wastage_list : f.wastage_list[i][1] # <<>>
    /\ f.outlet \in Range(outlet_options(f.department))

\* C12: a submission that fails validation is rejected before any store
\* I/O: every call that has reached save_to_s3 carries a valid submission.
C12_ValidatedBeforeIO ==
    \A s \in Sessions : pc[s] # "idle" => ValidSubmission(frame[s])

\* C15: the stored primary table has the columns Entry ID, Timestamp,
\* Submitter_Name, Department, Outlet, Product Name, Amount Wasted, Notes
\* in this order, and every row has exactly these fields.
C15_CanonicalColumns ==
    s3_exists =>
        /\ s3_sheet.columns = Append(COLUMN_ORDER, "Notes")
        /\ \A i \in DOMAIN s3_sheet.rows :
              DOMAIN s3_sheet.rows[i] = Range(COLUMN_ORDER) \cup {"Notes"}

\* C17: when put_object fails, the session still holds the batch: its
\* item list and its confirmed item count are what they were when the
\* call was made.
C17_BatchKeptOnFailure ==
    [][\A s \in Sessions :
          (pc[s] = "put_object" /\ log'[frame[s].call].result = "failed")
              => /\ session_state'[s].wastage_items = frame[s].wastage_list
                 /\ session_state'[s].confirmed_num = session_state[s].confirmed_num]_vars

\* C18: no item of a batch built from the form has a product name that is
\* empty or untrimmed.
C18_ProductNamesNonEmpty ==
    \A s \in Sessions :
        \A i \in DOMAIN session_state[s].wastage_items :
            LET product_name == session_state[s].wastage_items[i][1]
            IN  product_name # <<>> /\ strip(product_name) = product_name

\* C19: the Entry ID column of the stored report is non-decreasing in row
\* order.
C19_IdsNonDecreasing ==
    s3_exists =>
        \A i, j \in DOMAIN s3_sheet.rows :
            i < j => s3_sheet.rows[i]["Entry ID"] <= s3_sheet.rows[j]["Entry ID"]

\* C19 happens: after interleaved submits, or after a download that failed
\* and fell back to an empty report, a report of several rows is stored.
C19_Witness ==
    /\ s3_exists
    /\ Len(s3_sheet.rows) >= 2
    /\ \/ \E c, d \in DOMAIN log : Raced(c, d) /\ Stored(d)
       \/ \E c \in DOMAIN log :
             c > 1 /\ log[c].fetched = "error" /\ Saved(c) /\ Stored(c)

\* C13: the rows save_to_s3 builds for one call all carry the timestamp
\* captured when the call began, and the caller's submitter name,
\* department and outlet; the i-th row carries the product name and the
\* amount of the i-th item.
C13_BatchRows ==
    \A s \in Sessions :
        pc[s] = "put_object" =>
            LET f == frame[s]
            IN  /\ Len(f.new_rows) = Len(f.wastage_list)
                /\ \A i \in DOMAIN f.new_rows :
                      /\ f.new_rows[i]["Timestamp"] = f.timestamp
                      /\ f.new_rows[i]["Submitter_Name"] = f.submitter_name
                      /\ f.new_rows[i]["Department"] = f.department
                      /\ f.new_rows[i]["Outlet"] = f.outlet
                      /\ f.new_rows[i]["Product Name"] = f.wastage_list[i][1]
                      /\ f.new_rows[i]["Amount Wasted"] = f.wastage_list[i][2]

\* C13 happens: rows were built for a batch of two different items.
C13_Witness ==
    \E s \in Sessions :
        /\ pc[s] = "put_object"
        /\ Len(frame[s].new_rows) = 2
        /\ frame[s].wastage_list[1] # frame[s].wastage_list[2]
        /\ frame[s].timestamp = strftime(now)

\* C14: create_analytics_sheets leaves the frame it is given as it was,
\* and every call on the frame returns the same views.
C14_AnalyticsPure ==
    [][/\ main_df' = main_df
       /\ \A i, j \in DOMAIN analytics' : analytics'[i] = analytics'[j]]_vars

\* The number a text of digits stands for.
RECURSIVE to_number(_)
to_number(text) ==
    IF text = <<>> THEN 0
    ELSE to_number(SubSeq(text, 1, Len(text) - 1)) * 10 + digit(text[Len(text)])

RECURSIVE SumOfAmounts(_)
SumOfAmounts(rows) ==
    IF rows = <<>> THEN 0
    ELSE to_number(Head(rows)["Amount Wasted"]) + SumOfAmounts(Tail(rows))

SummaryOf(by) ==
    CASE by = "Outlet" -> "Outlet Summary"
      [] by = "Department" -> "Department Summary"
      [] by = "Product Name" -> "Product Summary"

\* C16: each of the outlet, department and product summaries has exactly
\* one row per distinct key of the records; the row's Incidents is the
\* number of records with that key and its Total Wastage is the numeric
\* sum of their amounts.
C16_GroupSummaries ==
    \A n \in DOMAIN analytics :
        \A by \in {"Outlet", "Department", "Product Name"} :
            LET rows == analytics[n][SummaryOf(by)].rows
            IN  /\ {rows[i][by] : i \in DOMAIN rows} = group_keys(main_df, by)
                /\ Len(rows) = Cardinality(group_keys(main_df, by))
                /\ \A i \in DOMAIN rows :
                      LET of_key == group_rows(main_df, by, rows[i][by])
                      IN  /\ rows[i]["Incidents"] = Len(of_key)
                          /\ to_number(rows[i]["Total Wastage"])
                                = SumOfAmounts(of_key)

====
